---- MODULE Spec2Model ----
(***************************************************************************)
(* Construction project tracker: the Django views of construction/views.py *)
(* (login, logout, list, create, detail/update/delete), the Project table  *)
(* of construction/models.py and the AWS helpers of                        *)
(* construction/aws_utils.py, as a state machine of one browser session    *)
(* issuing requests one at a time.                                         *)
(*                                                                         *)
(* Every handler is one action.  The ordered list of effects a request     *)
(* performs (database writes and calls to the AWS helpers, with what each  *)
(* helper returned) is kept in last.effects, its response in last.         *)
(***************************************************************************)
EXTENDS Naturals, Integers, Sequences, FiniteSets, TLC

VARIABLES
    store,      \* the Project table: a set of rows
    nextId,     \* the next value of the table's auto-increment primary key
    now,        \* the database clock (auto_now / auto_now_add read it)
    session,    \* the user bound to the browser's session, or None
    last,       \* the last request: its inputs, its response, its effects
    deleted,    \* history: identities removed by a completed delete request
    call,       \* the last direct call of an AWS helper: outcomes and result
    day,        \* the calendar day
    log_stream_name,    \* CloudWatchLogger.log_stream_name of the global logger
    cloudwatch, \* the log group: its streams and the events appended to them
    inflight    \* per worker: the request it is serving between two statements

vars == <<store, nextId, now, session, last, deleted,
          call, day, log_stream_name, cloudwatch, inflight>>

----------------------------------------------------------------------------
(* Bounds of the model *)

\* how many rows are ever inserted
MaxCreates == 2
\* how far the database clock runs (each writing request ticks it once)
MaxTime == 3
\* the last calendar day of the process (it is constructed on day 1)
MaxDay == 2

----------------------------------------------------------------------------
(* Values *)

None == "None"

\* the accounts of tests.py (setUp) and of the init_construction command
Users == {"testuser", "admin"}

Password(u) == IF u = "testuser" THEN "testpass123" ELSE "admin"

Email(u) == IF u = "testuser" THEN "test@example.com" ELSE "admin@construction.com"

\* the columns a form carries; request.POST.get gives None for an absent one
FormFields == {"name", "description", "location", "start_date", "end_date",
               "budget", "status", "priority"}

FormA == [name |-> "Highway Bridge", description |-> "renovation",
          location |-> "Queens", start_date |-> "2025-01-01",
          end_date |-> "2025-08-01", budget |-> "50000.00",
          status |-> "Planning", priority |-> "Low"]

FormB == [name |-> "Office Complex", description |-> "25 storeys",
          location |-> "New York", start_date |-> "2025-03-01",
          end_date |-> "2026-03-01", budget |-> "75000.50",
          status |-> "In Progress", priority |-> "High"]

FormC == [FormA EXCEPT !.status = "On Hold", !.priority = "Critical"]

FormD == [FormB EXCEPT !.status = "Completed", !.priority = "Medium"]

\* a form without the status field
FormNoStatus == [FormA EXCEPT !.status = None]

\* request.FILES.get('document'): the uploaded file's name, or None
Files == {None, "plan.pdf", "permit.pdf"}

\* a submission: the form fields and the optional file
Sub(form, document) == [form |-> form, document |-> document]

\* the submissions of the main specification: a complete form without a
\* file, a complete form with a file, a form without status with a file
Submissions == {Sub(FormA, None), Sub(FormB, "plan.pdf"), Sub(FormNoStatus, "plan.pdf")}

\* the login submissions (username, password, REMOTE_ADDR): both accounts,
\* a wrong password, an unknown user
Credentials == {<<"testuser", "testpass123", "127.0.0.1">>, <<"admin", "admin", "">>,
                <<"testuser", "admin", "127.0.0.1">>,
                <<"nobody", "testpass123", "">>}

\* outcome of each remote (boto3) call during one request
Remotes == {"describe_log_groups", "create_log_group", "describe_log_streams",
            "create_log_stream", "put_log_events", "upload_fileobj",
            "generate_presigned_url", "send_email", "publish"}

Services == {"logs", "s3", "ses", "sns"}

ServiceOf(op) ==
    IF op \in {"upload_fileobj", "generate_presigned_url"} THEN "s3"
    ELSE IF op = "send_email" THEN "ses"
    ELSE IF op = "publish" THEN "sns"
    ELSE "logs"

\* the remote outcomes when the services in down are failing
EnvOf(down) == [op \in Remotes |-> IF ServiceOf(op) \in down THEN "err" ELSE "ok"]

\* every combination of failing services among svcs
Envs(svcs) == {EnvOf(down) : down \in SUBSET svcs}

----------------------------------------------------------------------------
(* construction/aws_utils.py: what each helper returns, given the outcome  *)
(* r of the remote calls.  "Raise" is an exception leaving the helper.     *)

\* line 28: the stream name, from the calendar day of the construction
CloudWatchLogger_init(today) == "construction-app-" \o ToString(today)

CloudWatchLogger_ensure_log_group_exists(r) ==
    IF r["describe_log_groups"] = "ok" THEN "True"
    ELSE IF r["create_log_group"] = "ok" THEN "True"
    ELSE "False"

CloudWatchLogger_ensure_log_stream_exists(r) ==
    IF r["describe_log_streams"] = "ok" THEN "True"
    ELSE IF r["create_log_stream"] = "ok" THEN "True"
    ELSE "False"

\* log_project_activity with put_log_events outside its try/except
CloudWatchLogger_log_project_activity_unguarded(r) ==
    IF CloudWatchLogger_ensure_log_group_exists(r) = "False" THEN "False"
    ELSE IF CloudWatchLogger_ensure_log_stream_exists(r) = "False" THEN "False"
    ELSE IF r["put_log_events"] = "ok" THEN "True"
    ELSE "Raise"

CloudWatchLogger_log_project_activity(r) ==
    LET g == CloudWatchLogger_ensure_log_group_exists(r)
    IN  IF g = "Raise" THEN "Raise"
        ELSE IF g = "False" THEN "False"
        ELSE LET s == CloudWatchLogger_ensure_log_stream_exists(r)
             IN  IF s = "Raise" THEN "Raise"
                 ELSE IF s = "False" THEN "False"
                 ELSE IF r["put_log_events"] = "ok" THEN "True"
                 ELSE "False"

S3FileManager_upload_file(r) ==
    IF r["upload_fileobj"] = "ok" THEN "True" ELSE "False"

PresignedUrl(file_key) == "https://s3/" \o file_key

S3FileManager_get_file_url(r, file_key) ==
    IF r["generate_presigned_url"] = "ok" THEN PresignedUrl(file_key) ELSE None

\* send_email without its try/except
NotificationManager_send_email_raising(r) ==
    IF r["send_email"] = "ok" THEN "True" ELSE "Raise"

NotificationManager_send_email(r) ==
    IF r["send_email"] = "ok" THEN "True" ELSE "False"

NotificationManager_send_sns_notification(r) ==
    IF r["publish"] = "ok" THEN "True" ELSE "False"

----------------------------------------------------------------------------
(* A request in progress: the table as it stands, the effects so far, the  *)
(* value the last helper returned, and whether an exception is unwinding   *)
(* the handler (every later statement is then skipped).                    *)

NewCtx(s) == [store |-> s, effects |-> <<>>, ret |-> None, exc |-> FALSE]

Effect(ctx, e, ret) ==
    [ctx EXCEPT !.effects = Append(@, e), !.ret = ret, !.exc = (ret = "Raise")]

\* cloudwatch_logger.log_project_activity(activity_type, project_name, user, details)
LogActivity(ctx, r, activity_type, project_name, user, details) ==
    IF ctx.exc THEN ctx
    ELSE LET ret == CloudWatchLogger_log_project_activity(r)
         IN  Effect(ctx, [op |-> "log_project_activity",
                          activity_type |-> activity_type,
                          project_name |-> project_name,
                          user |-> user, details |-> details, ret |-> ret], ret)

\* cloudwatch_logger.log_user_login(username, ip_address)
LogUserLogin(ctx, r, username, ip_address) ==
    LogActivity(ctx, r, "LOGIN", "USER_AUTH", username,
                IF ip_address # "" THEN {<<"ip_address", ip_address>>} ELSE {})

\* cloudwatch_logger.log_file_upload(filename, user, project_name)
LogFileUpload(ctx, r, filename, user, project_name) ==
    LogActivity(ctx, r, "FILE_UPLOAD", project_name, user,
                {<<"filename", filename>>, <<"action", "file_upload">>})

\* s3_manager.upload_file(document, file_key)
UploadFile(ctx, r, document, file_key) ==
    IF ctx.exc THEN ctx
    ELSE LET ret == S3FileManager_upload_file(r)
         IN  Effect(ctx, [op |-> "upload_file", document |-> document,
                          file_key |-> file_key, ret |-> ret], ret)

\* s3_manager.get_file_url(project.document)
GetFileUrl(ctx, r, file_key) ==
    IF ctx.exc THEN ctx
    ELSE LET ret == S3FileManager_get_file_url(r, file_key)
         IN  Effect(ctx, [op |-> "get_file_url", file_key |-> file_key,
                          ret |-> ret], ret)

\* notification_manager.send_email(to_email, subject, body, sender_email)
SendEmail(ctx, r, to_email, name, budget) ==
    IF ctx.exc THEN ctx
    ELSE LET ret == NotificationManager_send_email(r)
         IN  Effect(ctx, [op |-> "send_email", to_email |-> to_email,
                          name |-> name, budget |-> budget, ret |-> ret], ret)

\* notification_manager.send_sns_notification(topic_arn, message, subject)
SendSns(ctx, r, name, priority) ==
    IF ctx.exc THEN ctx
    ELSE LET ret == NotificationManager_send_sns_notification(r)
         IN  Effect(ctx, [op |-> "send_sns_notification", name |-> name,
                          priority |-> priority, ret |-> ret], ret)

----------------------------------------------------------------------------
(* construction/models.py: the Project table *)

Ids(s) == {p.id : p \in s}

Get(s, id) == CHOOSE p \in s : p.id = id

\* no column of the form is declared null=True: NULL in any of them is an
\* IntegrityError
NotNull(row) == \A f \in FormFields : row[f] # None

\* an update that forgets to assign the status
WithForm_without_status(row, form) ==
    [row EXCEPT !.name = form.name, !.description = form.description,
                !.location = form.location, !.start_date = form.start_date,
                !.end_date = form.end_date, !.budget = form.budget,
                !.priority = form.priority]

WithForm(row, form) ==
    [row EXCEPT !.name = form.name, !.description = form.description,
                !.location = form.location, !.start_date = form.start_date,
                !.end_date = form.end_date, !.budget = form.budget,
                !.status = form.status, !.priority = form.priority]

\* Project(**kwargs): a value passed explicitly, None included, is kept;
\* the field default applies only to a keyword that is not passed
NewProject(id, form, manager) ==
    [id |-> id, name |-> form.name, description |-> form.description,
     location |-> form.location, start_date |-> form.start_date,
     end_date |-> form.end_date, budget |-> form.budget,
     status |-> form.status, priority |-> form.priority,
     manager |-> manager, document |-> None, created_at |-> 0, updated_at |-> 0]

\* Project.objects.create(...): INSERT; created_at (auto_now_add) and
\* updated_at (auto_now) are read from the clock
ObjectsCreate(ctx, row, t) ==
    IF ctx.exc THEN ctx
    ELSE IF ~NotNull(row) THEN [ctx EXCEPT !.exc = TRUE, !.ret = "Raise"]
    ELSE LET new == [row EXCEPT !.created_at = t, !.updated_at = t]
         IN  [ctx EXCEPT !.store = @ \cup {new},
                         !.effects = Append(@, [op |-> "db_insert", id |-> row.id])]

\* a save that does not overwrite a stored document key with an empty one
Save_keeps_document(ctx, row, t) ==
    IF ctx.exc THEN ctx
    ELSE IF ~NotNull(row) THEN [ctx EXCEPT !.exc = TRUE, !.ret = "Raise"]
    ELSE IF row.id \in {p.id : p \in ctx.store}
    THEN LET old == CHOOSE p \in ctx.store : p.id = row.id
             new == [row EXCEPT !.created_at = old.created_at, !.updated_at = t,
                                !.document = IF row.document = None
                                             THEN old.document ELSE row.document]
         IN  [ctx EXCEPT !.store = (@ \ {old}) \cup {new},
                         !.effects = Append(@, [op |-> "db_update", id |-> row.id])]
    ELSE LET new == [row EXCEPT !.created_at = t, !.updated_at = t]
         IN  [ctx EXCEPT !.store = @ \cup {new},
                         !.effects = Append(@, [op |-> "db_insert", id |-> row.id])]

\* project.save() of a loaded instance: UPDATE by primary key, and INSERT
\* when the UPDATE matches no row; updated_at (auto_now) is set on every
\* save, created_at (auto_now_add) on an insert
Save(ctx, row, t) ==
    IF ctx.exc THEN ctx
    ELSE IF ~NotNull(row) THEN [ctx EXCEPT !.exc = TRUE, !.ret = "Raise"]
    ELSE IF row.id \in Ids(ctx.store)
    THEN LET old == Get(ctx.store, row.id)
             new == [row EXCEPT !.created_at = old.created_at, !.updated_at = t]
         IN  [ctx EXCEPT !.store = (@ \ {old}) \cup {new},
                         !.effects = Append(@, [op |-> "db_update", id |-> row.id])]
    ELSE LET new == [row EXCEPT !.created_at = t, !.updated_at = t]
         IN  [ctx EXCEPT !.store = @ \cup {new},
                         !.effects = Append(@, [op |-> "db_insert", id |-> row.id])]

\* a delete that leaves the row in the table
Delete_soft(ctx, id) ==
    IF ctx.exc THEN ctx
    ELSE [ctx EXCEPT !.effects = Append(@, [op |-> "db_delete", id |-> id])]

\* project.delete()
Delete(ctx, id) ==
    IF ctx.exc THEN ctx
    ELSE [ctx EXCEPT !.store = {p \in @ : p.id # id},
                     !.effects = Append(@, [op |-> "db_delete", id |-> id])]

\* ordering = ['-updated_at']
OrderingKey_updated_at(p) == p.updated_at

\* Meta.ordering = ['-created_at']: the rows, latest created first
OrderingKey(p) == p.created_at

ObjectsAll(s) ==
    CHOOSE q \in [1..Cardinality(s) -> s] :
        /\ \A i, j \in 1..Cardinality(s) : i # j => q[i] # q[j]
        /\ \A i, j \in 1..Cardinality(s) :
               i < j => OrderingKey(q[i]) >= OrderingKey(q[j])

----------------------------------------------------------------------------
(* Responses *)

Msg(level, text, name) == [level |-> level, text |-> text, name |-> name]

NoMsg == Msg(None, None, None)

EmptyForm == [f \in FormFields |-> None]

Response(ctx, sess, status, target, message, body) ==
    [store |-> ctx.store, effects |-> ctx.effects, session |-> sess,
     status |-> status, target |-> target, message |-> message, body |-> body]

\* render(request, template, context)
Render(ctx, sess, template, message, body) ==
    Response(ctx, sess, 200, template, message, body)

\* redirect(view name)
Redirect(ctx, sess, view, message) ==
    Response(ctx, sess, 302, view, message, None)

\* an exception that leaves the view: the framework answers 500
ServerError(ctx, sess) == Response(ctx, sess, 500, None, NoMsg, None)

\* get_object_or_404 found no row
NotFound(ctx, sess) == Response(ctx, sess, 404, None, NoMsg, None)

\* the decorator left off a view
login_required_missing(s, sess, view) == view

\* @login_required: without an authenticated user the view is not entered
\* and the request is redirected to the login URL
login_required(s, sess, view) ==
    IF sess = None THEN Redirect(NewCtx(s), sess, "login", NoMsg) ELSE view

----------------------------------------------------------------------------
(* construction/views.py *)

\* a backend that does not check the password
authenticate_any_password(username, password) ==
    IF username \in Users THEN username ELSE None

\* django.contrib.auth.authenticate: the user whose credentials match
authenticate(username, password) ==
    IF username \in Users /\ password = Password(username) THEN username ELSE None

user_login(s, sess, method, username, password, ip_address, r) ==
    IF method = "POST"
    THEN LET user == authenticate(username, password)
         IN  IF user # None
             THEN LET c == LogUserLogin(NewCtx(s), r, username, ip_address)
                  IN  IF c.exc THEN ServerError(c, sess)
                      ELSE Redirect(c, user, "project_list",
                                    Msg("success", "Login successful!", None))
             ELSE Render(NewCtx(s), sess, "login.html",
                         Msg("error", "Invalid username or password.", None), None)
    ELSE Render(NewCtx(s), sess, "login.html", NoMsg, None)

\* the actor read after logout(request) has cleared request.user
LogoutActor_after_logout(sess) == "Anonymous"

\* request.user.username if request.user.is_authenticated else 'Anonymous'
LogoutActor(sess) == IF sess # None THEN sess ELSE "Anonymous"

user_logout(s, sess, r) ==
    LET username == LogoutActor(sess)
        c == LogActivity(NewCtx(s), r, "LOGOUT", "USER_AUTH", username, {})
    IN  IF c.exc THEN ServerError(c, None)
        ELSE Redirect(c, None, "user_login",
                      Msg("success", "You have been logged out successfully.", None))

project_list(s, sess, r) ==
    LET projects == ObjectsAll(s)
        c == LogActivity(NewCtx(s), r, "VIEW", "PROJECT_LIST", sess,
                         {<<"total_projects", ToString(Len(projects))>>})
    IN  IF c.exc THEN ServerError(c, sess)
        ELSE Render(c, sess, "project_list.html", NoMsg,
                    [i \in 1..Len(projects) |-> projects[i].id])

\* f"project_documents/{project.id}_{document.name}"
FileKey(id, filename) == "project_documents/" \o ToString(id) \o "_" \o filename

\* the broadcast for Critical projects only
NeedsBroadcast_critical_only(priority) == priority = "Critical"

\* priority in ['High', 'Critical']
NeedsBroadcast(priority) == priority \in {"High", "Critical"}

\* the recipient: request.user.email or settings.AWS_SES_SENDER_EMAIL
Recipient(user) == IF Email(user) # "" THEN Email(user) ELSE "AWS_SES_SENDER_EMAIL"

\* the key recorded without looking at what upload_file returned
CreateUpload_unchecked(c, r, project, document, user, name, t) ==
    IF document = None THEN c
    ELSE LET file_key == FileKey(project.id, document)
             u == UploadFile(c, r, document, file_key)
         IN  IF u.exc THEN u
             ELSE LogFileUpload(Save(u, [project EXCEPT !.document = file_key], t),
                                r, document, user, name)

\* lines 97-102: after upload_file returned, the key is saved and the
\* upload recorded
CreateSave(u, r, project, document, user, name, t) ==
    IF u.exc \/ u.ret # "True" THEN u
    ELSE LogFileUpload(Save(u, [project EXCEPT
                                  !.document = FileKey(project.id, document)], t),
                       r, document, user, name)

\* lines 94-102: the optional upload after the insert
CreateUpload(c, r, project, document, user, name, t) ==
    IF document = None THEN c
    ELSE CreateSave(UploadFile(c, r, document, FileKey(project.id, document)),
                    r, project, document, user, name, t)

\* lines 110-124: the notifications
CreateNotify(c, r, user, name, budget, priority) ==
    LET e == SendEmail(c, r, Recipient(user), name, budget)
    IN  IF NeedsBroadcast(priority) THEN SendSns(e, r, name, priority) ELSE e

\* lines 104-127: the CREATE event, the notifications, the redirect
CreateRecord(c2, sess, r, form) ==
    LET c3 == LogActivity(c2, r, "CREATE", form.name, sess,
                          {<<"budget", form.budget>>, <<"status", form.status>>,
                           <<"priority", form.priority>>})
        c4 == CreateNotify(c3, r, sess, form.name, form.budget, form.priority)
    IN  IF c4.exc THEN ServerError(c4, sess)
        ELSE Redirect(c4, sess, "project_list",
                      Msg("success", "created successfully!", form.name))

project_create(s, sess, method, form, document, r, id, t) ==
    IF method = "POST"
    THEN LET project == NewProject(id, form, sess)
             c1 == ObjectsCreate(NewCtx(s), project, t)
         IN  CreateRecord(CreateUpload(c1, r, project, document, sess, form.name, t),
                          sess, r, form)
    ELSE Render(NewCtx(s), sess, "project_create.html", NoMsg, None)

\* a variant that stores the new file but keeps a document key the project
\* already has
UpdateUpload_keeps_key(c, r, project, document, user) ==
    IF document = None THEN [ctx |-> c, project |-> project]
    ELSE LET file_key == FileKey(project.id, document)
             u == UploadFile(c, r, document, file_key)
         IN  IF u.exc \/ u.ret # "True" THEN [ctx |-> u, project |-> project]
             ELSE [ctx |-> LogFileUpload(u, r, document, user, project.name),
                   project |-> IF project.document = None
                               THEN [project EXCEPT !.document = file_key]
                               ELSE project]

\* lines 152-158: the optional upload before the save
UpdateUpload(c, r, project, document, user) ==
    IF document = None THEN [ctx |-> c, project |-> project]
    ELSE LET file_key == FileKey(project.id, document)
             u == UploadFile(c, r, document, file_key)
         IN  IF u.exc \/ u.ret # "True" THEN [ctx |-> u, project |-> project]
             ELSE [ctx |-> LogFileUpload(u, r, document, user, project.name),
                   project |-> [project EXCEPT !.document = file_key]]

\* lines 182-198: the detail page of the loaded instance
DetailPage(c, sess, r, project, message) ==
    LET v == LogActivity(c, r, "VIEW", project.name, sess,
                         {<<"project_id", ToString(project.id)>>,
                          <<"status", project.status>>})
        w == IF project.document # None
             THEN GetFileUrl(v, r, project.document) ELSE v
        document_url == IF project.document # None /\ ~w.exc THEN w.ret ELSE None
    IN  IF w.exc THEN ServerError(w, sess)
        ELSE Render(w, sess, "project_detail.html", message,
                    [project |-> project, document_url |-> document_url])

\* lines 160-168 and the page after them: the instance is saved, the
\* UPDATE event recorded, the detail page rendered
UpdateSave(c, sess, r, project, t) ==
    LET c1 == Save(c, project, t)
        c2 == LogActivity(c1, r, "UPDATE", project.name, sess,
                          {<<"budget", project.budget>>,
                           <<"status", project.status>>})
    IN  IF c2.exc THEN ServerError(c2, sess)
        ELSE DetailPage(c2, sess, r, [project EXCEPT !.updated_at = t],
                        Msg("success", "updated successfully!", project.name))

\* lines 170-180: the instance is deleted, the DELETE event recorded
DeleteProject(c, sess, r, project) ==
    LET project_name == project.name
        c1 == Delete(c, project.id)
        c2 == LogActivity(c1, r, "DELETE", project_name, sess, {})
    IN  IF c2.exc THEN ServerError(c2, sess)
        ELSE Redirect(c2, sess, "project_list",
                      Msg("success", "deleted successfully!", project_name))

project_detail(s, sess, method, action, form, document, r, project_id, t) ==
    IF project_id \notin Ids(s) THEN NotFound(NewCtx(s), sess)
    ELSE
    LET project == Get(s, project_id)
    IN  IF method = "POST" /\ action = "update"
        THEN LET up == UpdateUpload(NewCtx(s), r, WithForm(project, form),
                                    document, sess)
             IN  UpdateSave(up.ctx, sess, r, up.project, t)
        ELSE IF method = "POST" /\ action = "delete"
        THEN DeleteProject(NewCtx(s), sess, r, project)
        ELSE DetailPage(NewCtx(s), sess, r, project, NoMsg)

----------------------------------------------------------------------------
(* The state machine *)

NoArgs == [project_id |-> 0, action |-> None, form |-> EmptyForm, document |-> None,
           username |-> None, password |-> None, ip_address |-> ""]

Ops(effects) == {effects[i].op : i \in DOMAIN effects}

\* the server's workers, each serving one request at a time
Workers == {"w1", "w2"}

\* a worker that serves no request
Idle == [view |-> "none", pc |-> "idle", project_id |-> 0, form |-> EmptyForm,
         document |-> None, project |-> None, effects |-> <<>>, ret |-> None,
         status |-> 0, saved_at |-> 0]

Init ==
    /\ day = 1
    /\ log_stream_name = CloudWatchLogger_init(day)
    /\ cloudwatch = [streams |-> {}, events |-> {}]
    /\ call = [helper |-> "none", r |-> EnvOf({}), ret |-> None]
    /\ inflight = [w \in Workers |-> Idle]
    /\ store = {}
    /\ nextId = 1
    /\ now = 0
    /\ session = None
    /\ deleted = {}
    /\ last = [handler |-> "none", method |-> None, user |-> None, args |-> NoArgs,
               status |-> 0, target |-> None, message |-> NoMsg, body |-> None,
               effects |-> <<>>]

\* the request is answered: its writes are in the table, the session is as
\* the handler left it, the clock has ticked if the request wrote a row
\* (a request that would write past the bounds of the model is not taken)
Answer(handler, method, args, res) ==
    /\ "db_insert" \in Ops(res.effects) => nextId <= MaxCreates
    /\ Ops(res.effects) \cap {"db_insert", "db_update"} # {} => now < MaxTime
    /\ store' = res.store
    /\ session' = res.session
    /\ nextId' = IF "db_insert" \in Ops(res.effects) THEN nextId + 1 ELSE nextId
    /\ now' = IF Ops(res.effects) \cap {"db_insert", "db_update"} # {}
              THEN now + 1 ELSE now
    /\ deleted' = deleted \cup {res.effects[i].id :
                                  i \in {j \in DOMAIN res.effects :
                                           res.effects[j].op = "db_delete"}}
    /\ last' = [handler |-> handler, method |-> method, user |-> session,
                args |-> args, status |-> res.status, target |-> res.target,
                message |-> res.message, body |-> res.body,
                effects |-> res.effects]
    /\ UNCHANGED <<call, day, log_stream_name, cloudwatch, inflight>>

UserLogin(creds, svcs) ==
    \/ Answer("user_login", "GET", NoArgs,
              user_login(store, session, "GET", None, None, "", EnvOf({})))
    \/ \E c \in creds, r \in Envs(svcs \cap {"logs"}) :
         Answer("user_login", "POST",
                [NoArgs EXCEPT !.username = c[1], !.password = c[2],
                               !.ip_address = c[3]],
                user_login(store, session, "POST", c[1], c[2], c[3], r))

UserLogout(svcs) ==
    \E r \in Envs(svcs \cap {"logs"}) :
       Answer("user_logout", "GET", NoArgs, user_logout(store, session, r))

ProjectList(svcs) ==
    \E r \in Envs(svcs \cap {"logs"}) :
       Answer("project_list", "GET", NoArgs,
              login_required(store, session,
              project_list(store, session, r)))

ProjectCreate(subs, svcs) ==
    \/ Answer("project_create", "GET", NoArgs,
              login_required(store, session,
              project_create(store, session, "GET", EmptyForm, None,
                                  EnvOf({}), nextId, now + 1)))
    \/ \E sub \in subs, r \in Envs(svcs) :
         Answer("project_create", "POST",
                   [NoArgs EXCEPT !.form = sub.form, !.document = sub.document],
                   login_required(store, session,
                   project_create(store, session, "POST", sub.form,
                                       sub.document, r, nextId, now + 1)))

ProjectDetail(subs, svcs) ==
    \E project_id \in 1..MaxCreates :
       \/ \E r \in Envs(svcs \cap {"logs", "s3"}) :
            Answer("project_detail", "GET", [NoArgs EXCEPT !.project_id = project_id],
                   login_required(store, session,
                   project_detail(store, session, "GET", None, EmptyForm, None,
                                       r, project_id, now + 1)))
       \/ \E sub \in subs, r \in Envs(svcs \cap {"logs", "s3"}) :
            Answer("project_detail", "POST",
                      [NoArgs EXCEPT !.project_id = project_id, !.action = "update",
                                     !.form = sub.form, !.document = sub.document],
                      login_required(store, session,
                      project_detail(store, session, "POST", "update", sub.form,
                                          sub.document, r, project_id, now + 1)))
       \/ \E r \in Envs(svcs \cap {"logs"}) :
            Answer("project_detail", "POST",
                   [NoArgs EXCEPT !.project_id = project_id, !.action = "delete"],
                   login_required(store, session,
                   project_detail(store, session, "POST", "delete", EmptyForm,
                                       None, r, project_id, now + 1)))

\* The main specification: both accounts, the three submissions, every
\* service answering.
Next ==
    \/ UserLogin(Credentials, {})
    \/ UserLogout({})
    \/ ProjectList({})
    \/ ProjectCreate(Submissions, {})
    \/ ProjectDetail(Submissions, {})

Spec == Init /\ [][Next]_vars

\* The second specification: one account signs in and creates, views,
\* updates and deletes projects while any combination of the four
\* services fails.
NextFaults ==
    \/ UserLogin({<<"admin", "admin", "">>}, Services)
    \/ ProjectCreate(Submissions, Services)
    \/ ProjectDetail(Submissions, Services)

SpecFaults == Init /\ [][NextFaults]_vars

\* one submission per priority
PrioritySubmissions == {Sub(FormA, None), Sub(FormB, None), Sub(FormC, None),
                        Sub(FormD, None)}

\* The third specification: one account, a project of every priority, and
\* an email service that may fail.
NextPriority ==
    \/ UserLogin({<<"admin", "admin", "">>}, {"ses"})
    \/ ProjectList({"ses"})
    \/ ProjectCreate(PrioritySubmissions, {"ses"})
    \/ ProjectDetail(PrioritySubmissions, {"ses"})

SpecPriority == Init /\ [][NextPriority]_vars

\* submissions without a file and with either of the two files
DocumentSubmissions == {Sub(FormA, None), Sub(FormB, "plan.pdf"),
                        Sub(FormA, "permit.pdf")}

\* The fourth specification: one account creates, views, updates and
\* deletes projects with and without files while the Document Store may
\* fail.
NextDocuments ==
    \/ UserLogin({<<"admin", "admin", "">>}, {})
    \/ ProjectCreate(DocumentSubmissions, {"s3"})
    \/ ProjectDetail(DocumentSubmissions, {"s3"})

SpecDocuments == Init /\ [][NextDocuments]_vars

\* every combination of outcomes of the remote calls
Outcomes == [Remotes -> {"ok", "err"}]

\* a helper is called directly and returns (or raises)
Call(helper, r, ret) ==
    /\ call' = [helper |-> helper, r |-> r, ret |-> ret]
    /\ UNCHANGED <<store, nextId, now, session, last, deleted,
                   day, log_stream_name, cloudwatch, inflight>>

EnsureLogGroupExists ==
    \E r \in Outcomes :
       Call("ensure_log_group_exists", r, CloudWatchLogger_ensure_log_group_exists(r))

EnsureLogStreamExists ==
    \E r \in Outcomes :
       Call("ensure_log_stream_exists", r, CloudWatchLogger_ensure_log_stream_exists(r))

LogProjectActivity ==
    \E r \in Outcomes :
       Call("log_project_activity", r, CloudWatchLogger_log_project_activity(r))

UploadFileCall ==
    \E r \in Outcomes :
       Call("upload_file", r, S3FileManager_upload_file(r))

GetFileUrlCall ==
    \E r \in Outcomes :
       Call("get_file_url", r, S3FileManager_get_file_url(r, FileKey(1, "plan.pdf")))

SendEmailCall ==
    \E r \in Outcomes :
       Call("send_email", r, NotificationManager_send_email(r))

SendSnsNotificationCall ==
    \E r \in Outcomes :
       Call("send_sns_notification", r, NotificationManager_send_sns_notification(r))

\* The fifth specification: the helpers of aws_utils.py called one at a
\* time under every combination of failing remote calls.
NextHelpers ==
    \/ EnsureLogGroupExists
    \/ EnsureLogStreamExists
    \/ LogProjectActivity
    \/ UploadFileCall
    \/ GetFileUrlCall
    \/ SendEmailCall
    \/ SendSnsNotificationCall

SpecHelpers == Init /\ [][NextHelpers]_vars

\* the outcomes in which only the calls of the given service may fail
OutcomesOf(svc) == {r \in Outcomes : \A op \in Remotes : ServiceOf(op) # svc => r[op] = "ok"}

\* lines 55-66: create_log_stream is reached and succeeds
StreamCreated(r) ==
    /\ CloudWatchLogger_ensure_log_group_exists(r) = "True"
    /\ r["describe_log_streams"] = "err"
    /\ r["create_log_stream"] = "ok"

\* midnight passes while the process runs
AdvanceDay ==
    /\ day < MaxDay
    /\ day' = day + 1
    /\ UNCHANGED <<store, nextId, now, session, last, deleted,
                   call, log_stream_name, cloudwatch, inflight>>

\* the global logger writes one audit record: the stream it names is
\* created if the lookup failed, and the event is appended to it when
\* put_log_events succeeds (a stream cannot be created twice, and events
\* cannot be put to a stream that is not there)
WriteAuditRecord ==
    \E r \in OutcomesOf("logs"), activity_type \in {"CREATE", "DELETE"} :
       LET streams == IF StreamCreated(r)
                      THEN cloudwatch.streams \cup {log_stream_name}
                      ELSE cloudwatch.streams
           ret == CloudWatchLogger_log_project_activity(r)
       IN  /\ r["create_log_stream"] = "ok" => log_stream_name \notin cloudwatch.streams
           /\ r["put_log_events"] = "ok" => log_stream_name \in streams
           /\ cloudwatch' = [streams |-> streams,
                             events |-> IF ret = "True"
                                        THEN cloudwatch.events
                                             \cup {[stream |-> log_stream_name,
                                                     day |-> day,
                                                     activity_type |-> activity_type]}
                                        ELSE cloudwatch.events]
           /\ call' = [helper |-> "log_project_activity", r |-> r, ret |-> ret]
           /\ UNCHANGED <<store, nextId, now, session, last, deleted,
                          day, log_stream_name, inflight>>

\* The sixth specification: the global logger of one process writing
\* audit records while the calendar day advances.
NextAudit ==
    \/ AdvanceDay
    \/ WriteAuditRecord

SpecAudit == Init /\ [][NextAudit]_vars

\* submissions of concurrent requests: one without, one with a file
ConcurrentSubmissions == {Sub(FormA, None), Sub(FormB, "plan.pdf")}

\* a worker takes an update request up to the statement before
\* project.save(): the instance is loaded (or the request answered 404),
\* the form assigned, the file put
BeginUpdate(w, subs) ==
    /\ session # None
    /\ inflight[w].pc \in {"idle", "done"}
    /\ \E project_id \in 1..(nextId - 1), sub \in subs :
          LET arrived == [Idle EXCEPT !.view = "update", !.project_id = project_id,
                                      !.form = sub.form, !.document = sub.document]
              up == UpdateUpload(NewCtx(store), EnvOf({}),
                                 WithForm(Get(store, project_id), sub.form),
                                 sub.document, session)
          IN  inflight' = [inflight EXCEPT ![w] =
                 IF project_id \notin Ids(store)
                 THEN [arrived EXCEPT !.pc = "done", !.status = 404]
                 ELSE [arrived EXCEPT !.pc = "loaded", !.project = up.project,
                                      !.effects = up.ctx.effects,
                                      !.ret = up.ctx.ret]]
    /\ UNCHANGED <<store, nextId, now, session, last, deleted,
                   call, day, log_stream_name, cloudwatch>>

\* a worker takes a delete request up to the statement before
\* project.delete()
BeginDelete(w) ==
    /\ session # None
    /\ inflight[w].pc \in {"idle", "done"}
    /\ \E project_id \in 1..(nextId - 1) :
          LET arrived == [Idle EXCEPT !.view = "delete", !.project_id = project_id]
          IN  inflight' = [inflight EXCEPT ![w] =
                 IF project_id \notin Ids(store)
                 THEN [arrived EXCEPT !.pc = "done", !.status = 404]
                 ELSE [arrived EXCEPT !.pc = "loaded",
                                      !.project = Get(store, project_id)]]
    /\ UNCHANGED <<store, nextId, now, session, last, deleted,
                   call, day, log_stream_name, cloudwatch>>

\* a worker takes a create request: the row is inserted; with a file the
\* file is put and the request stands before its project.save(), without
\* one it is answered
BeginCreate(w, subs) ==
    /\ session # None
    /\ inflight[w].pc \in {"idle", "done"}
    /\ nextId <= MaxCreates
    /\ now < MaxTime
    /\ \E sub \in subs :
          LET project == NewProject(nextId, sub.form, session)
              arrived == [Idle EXCEPT !.view = "create", !.project_id = nextId,
                                      !.form = sub.form, !.document = sub.document]
              c1 == ObjectsCreate(NewCtx(store), project, now + 1)
              u == UploadFile(c1, EnvOf({}), sub.document,
                              FileKey(nextId, sub.document))
              res == CreateRecord(c1, session, EnvOf({}), sub.form)
          IN  /\ ~c1.exc
              /\ store' = c1.store
              /\ inflight' = [inflight EXCEPT ![w] =
                     IF sub.document = None
                     THEN [arrived EXCEPT !.pc = "done", !.status = res.status,
                                          !.effects = res.effects,
                                          !.saved_at = now + 1]
                     ELSE [arrived EXCEPT !.pc = "inserted", !.project = project,
                                          !.effects = u.effects, !.ret = u.ret,
                                          !.saved_at = now + 1]]
    /\ nextId' = nextId + 1
    /\ now' = now + 1
    /\ UNCHANGED <<session, last, deleted, call, day, log_stream_name, cloudwatch>>

\* the worker runs its request from the statement it stands before to
\* the response, on the table as it is now
Finish(w) ==
    LET req == inflight[w]
        c == [store |-> store, effects |-> req.effects, ret |-> req.ret,
              exc |-> FALSE]
        t == now + 1
        res == IF req.view = "update"
               THEN UpdateSave(c, session, EnvOf({}), req.project, t)
               ELSE IF req.view = "delete"
               THEN DeleteProject(c, session, EnvOf({}), req.project)
               ELSE CreateRecord(CreateSave(c, EnvOf({}), req.project, req.document,
                                            session, req.form.name, t),
                                 session, EnvOf({}), req.form)
        wrote == \E i \in DOMAIN res.effects :
                    /\ i > Len(req.effects)
                    /\ res.effects[i].op \in {"db_insert", "db_update"}
    IN  /\ req.pc \in {"loaded", "inserted"}
        /\ wrote => now < MaxTime
        /\ store' = res.store
        /\ now' = IF wrote THEN t ELSE now
        /\ deleted' = IF req.view = "delete" THEN deleted \cup {req.project_id}
                      ELSE deleted
        /\ inflight' = [inflight EXCEPT ![w] =
               [req EXCEPT !.pc = "done", !.status = res.status,
                           !.effects = res.effects,
                           !.saved_at = IF wrote THEN t ELSE @]]
        /\ UNCHANGED <<nextId, session, last, call, day, log_stream_name, cloudwatch>>

\* The seventh specification: one account signs in and its create, update
\* and delete requests are served by two workers whose statements
\* interleave.
NextConcurrent ==
    \/ session = None /\ UserLogin({<<"admin", "admin", "">>}, {})
    \/ \E w \in Workers :
          \/ BeginCreate(w, ConcurrentSubmissions)
          \/ BeginUpdate(w, ConcurrentSubmissions)
          \/ BeginDelete(w)
          \/ Finish(w)

SpecConcurrent == Init /\ [][NextConcurrent]_vars

----------------------------------------------------------------------------
(* Properties.  In an action formula the unprimed variables are the state  *)
(* in which the request arrives and last' is the request and its answer.   *)

ProjectViews == {"project_list", "project_create", "project_detail"}

Complete(form) == \A f \in FormFields : form[f] # None

\* the effects of the request with the given op, in order
EffectsOf(req, op) == SelectSeq(req.effects, LAMBDA e : e.op = op)

\* the audit events of the given type, in order
Events(req, type) ==
    SelectSeq(req.effects,
              LAMBDA e : e.op = "log_project_activity" /\ e.activity_type = type)

\* the request without a session is turned away and touches nothing
TurnedAway(req) ==
    /\ req.status = 302
    /\ req.target = "login"
    /\ req.effects = <<>>
    /\ store' = store

\* C1 as stated: without a session every list, create or detail request is
\* redirected to login and touches neither the table nor a collaborator;
\* with a session the list, the create form and every detail request for
\* an existing project are answered 200.
C1_AsStated ==
    [][LET req == last'
       IN  req.handler \in ProjectViews =>
             IF session = None THEN TurnedAway(req)
             ELSE /\ req.handler = "project_list" => req.status = 200
                  /\ (req.handler = "project_create" /\ req.method = "GET")
                        => req.status = 200
                  /\ (req.handler = "project_detail"
                        /\ req.args.project_id \in Ids(store))
                        => req.status = 200]_vars

\* C1 amended: as C1, but of the detail requests for an existing project
\* it is the view (GET) and the update with a complete form that are
\* answered 200; a delete is answered with a redirect to the project list.
C1_LoginGate ==
    [][LET req == last'
       IN  req.handler \in ProjectViews =>
             IF session = None THEN TurnedAway(req)
             ELSE /\ req.handler = "project_list" => req.status = 200
                  /\ (req.handler = "project_create" /\ req.method = "GET")
                        => req.status = 200
                  /\ (req.handler = "project_detail"
                        /\ req.args.project_id \in Ids(store))
                        => IF req.args.action = "delete"
                           THEN req.status = 302 /\ req.target = "project_list"
                           ELSE Complete(req.args.form) \/ req.method = "GET"
                                   => req.status = 200]_vars

\* an update of an existing project arrives without a session and is turned away
C1_Witness ==
    /\ last.handler = "project_detail"
    /\ last.args.action = "update"
    /\ last.user = None
    /\ last.args.project_id \in Ids(store)
    /\ last.status = 302
    /\ last.target = "login"

\* C2 as stated: after a create submission the table holds a row with the
\* new identity, the submitted name, description, location, dates, budget
\* and priority, the session user as manager, and the submitted status, or
\* "Planning" when the form carries no status.
C2_AsStated ==
    [][LET req == last'
           form == req.args.form
       IN  (req.handler = "project_create" /\ req.method = "POST" /\ session # None)
             => \E p \in store' :
                   /\ p.id = nextId
                   /\ p.name = form.name
                   /\ p.description = form.description
                   /\ p.location = form.location
                   /\ p.start_date = form.start_date
                   /\ p.end_date = form.end_date
                   /\ p.budget = form.budget
                   /\ p.priority = form.priority
                   /\ p.status = (IF form.status = None THEN "Planning"
                                  ELSE form.status)
                   /\ p.manager = session]_vars

\* C3: a create submission with a complete form and a file leaves the new
\* row in the table whether the put succeeds or fails; the row's document
\* is "project_documents/<id>_<filename>" exactly when the put returned
\* True, and is unset, with no FILE_UPLOAD event, when it did not.
C3_UploadIndependent ==
    [][LET req == last'
           puts == EffectsOf(req, "upload_file")
           key == "project_documents/" \o ToString(nextId) \o "_" \o req.args.document
       IN  (/\ req.handler = "project_create" /\ req.method = "POST"
            /\ session # None
            /\ req.args.document # None
            /\ Complete(req.args.form))
             => /\ Len(puts) = 1
                /\ puts[1].file_key = key
                /\ \E p \in store' :
                      /\ p.id = nextId
                      /\ p.name = req.args.form.name
                      /\ p.document = (IF puts[1].ret = "True" THEN key ELSE None)
                /\ puts[1].ret # "True" => Len(Events(req, "FILE_UPLOAD")) = 0
                /\ puts[1].ret = "True" => Len(Events(req, "FILE_UPLOAD")) = 1]_vars

\* a create with a file whose put failed: the row is there without a document
C3_Witness ==
    /\ last.handler = "project_create"
    /\ last.method = "POST"
    /\ last.args.document # None
    /\ \E i \in DOMAIN last.effects :
          last.effects[i].op = "upload_file" /\ last.effects[i].ret = "False"
    /\ \E p \in store : p.id = nextId - 1 /\ p.document = None
                        /\ p.name = last.args.form.name

\* the rows with the document column blanked
SansDocument(s) == {[p EXCEPT !.document = None] : p \in s}

\* the row a complete form gives, written at time t, document aside
ExpectedRow(id, form, manager, created, t) ==
    [id |-> id, name |-> form.name, description |-> form.description,
     location |-> form.location, start_date |-> form.start_date,
     end_date |-> form.end_date, budget |-> form.budget, status |-> form.status,
     priority |-> form.priority, manager |-> manager, document |-> None,
     created_at |-> created, updated_at |-> t]

\* C4: what the user sees (status, target, message) and what the table
\* holds, document aside, after a create, update or delete is decided by
\* the submission and the table alone, whichever of the audit log, the
\* upload, the email and the broadcast fail.
C4_FailuresSwallowed ==
    [][LET req == last'
           form == req.args.form
           id == req.args.project_id
       IN  /\ (req.handler = "project_create" /\ req.method = "POST"
                 /\ session # None /\ Complete(form))
                => /\ req.status = 302 /\ req.target = "project_list"
                   /\ req.message = Msg("success", "created successfully!", form.name)
                   /\ SansDocument(store') = SansDocument(store) \cup
                         {ExpectedRow(nextId, form, session, now + 1, now + 1)}
           /\ (req.handler = "project_detail" /\ req.args.action = "update"
                 /\ session # None /\ id \in Ids(store) /\ Complete(form))
                => /\ req.status = 200 /\ req.target = "project_detail.html"
                   /\ req.message = Msg("success", "updated successfully!", form.name)
                   /\ SansDocument(store') =
                         SansDocument({p \in store : p.id # id}) \cup
                         {ExpectedRow(id, form, Get(store, id).manager,
                                      Get(store, id).created_at, now + 1)}
           /\ (req.handler = "project_detail" /\ req.args.action = "delete"
                 /\ session # None /\ id \in Ids(store))
                => /\ req.status = 302 /\ req.target = "project_list"
                   /\ req.message = Msg("success", "deleted successfully!",
                                        Get(store, id).name)
                   /\ store' = {p \in store : p.id # id}]_vars

\* a create during which the audit log, the upload, the email and the
\* broadcast all failed, answered as a success with the row in the table
C4_Witness ==
    /\ last.handler = "project_create"
    /\ last.method = "POST"
    /\ last.status = 302
    /\ last.message.level = "success"
    /\ \E p \in store : p.id = nextId - 1 /\ p.name = last.args.form.name
    /\ {last.effects[i].op : i \in DOMAIN last.effects}
          = {"db_insert", "upload_file", "log_project_activity", "send_email",
             "send_sns_notification"}
    /\ \A i \in DOMAIN last.effects :
          last.effects[i].op # "db_insert" => last.effects[i].ret = "False"

\* C5: a create that persists a project attempts one email, and one
\* broadcast exactly when the submitted priority is High or Critical,
\* whatever the email returned; no other request attempts either.
C5_Notifications ==
    [][LET req == last'
           emails == Len(EffectsOf(req, "send_email"))
           broadcasts == Len(EffectsOf(req, "send_sns_notification"))
       IN  IF /\ req.handler = "project_create" /\ req.method = "POST"
              /\ nextId \in Ids(store') \ Ids(store)
           THEN /\ emails = 1
                /\ broadcasts = (IF req.args.form.priority \in {"High", "Critical"}
                                 THEN 1 ELSE 0)
           ELSE emails = 0 /\ broadcasts = 0]_vars

\* a create of a High or Critical project whose email failed and whose
\* broadcast was attempted all the same
C5_Witness ==
    /\ last.handler = "project_create"
    /\ last.method = "POST"
    /\ last.args.form.priority \in {"High", "Critical"}
    /\ \E i, j \in DOMAIN last.effects :
          /\ i < j
          /\ last.effects[i].op = "send_email" /\ last.effects[i].ret = "False"
          /\ last.effects[j].op = "send_sns_notification"

\* C6: the identity of a deleted project is never in the table again, and
\* a detail request (view, update or delete) for it is answered not-found
\* (turned away to login without a session) and changes nothing.
C6_DeletedStaysDeleted ==
    [][LET req == last'
       IN  /\ deleted' \cap Ids(store') = {}
           /\ deleted \subseteq deleted'
           /\ (req.handler = "project_detail" /\ req.args.project_id \in deleted)
                => /\ req.status = (IF session = None THEN 302 ELSE 404)
                   /\ req.effects = <<>>
                   /\ store' = store /\ deleted' = deleted
                   /\ nextId' = nextId]_vars

\* a detail request with a session for a deleted identity, answered 404,
\* while a project created after the deletion is in the table
C6_Witness ==
    /\ last.handler = "project_detail"
    /\ last.user # None
    /\ last.args.project_id \in deleted
    /\ last.status = 404
    /\ \E p \in store : p.id > last.args.project_id

\* C7: the list holds exactly the rows of the table, each once, latest
\* created first (creation time and identity both descending), also after
\* an earlier project was updated later than a newer one was created.
C7_ListOrder ==
    (last.handler = "project_list" /\ last.user # None)
      => /\ last.status = 200
         /\ Len(last.body) = Cardinality(store)
         /\ {last.body[i] : i \in DOMAIN last.body} = Ids(store)
         /\ \A i, j \in DOMAIN last.body :
               i < j => /\ last.body[i] > last.body[j]
                        /\ Get(store, last.body[i]).created_at
                             > Get(store, last.body[j]).created_at

\* a list of two projects of which the older was updated after the newer
\* was created
C7_Witness ==
    /\ last.handler = "project_list"
    /\ last.status = 200
    /\ Len(last.body) = 2
    /\ \E p, q \in store : p.id < q.id /\ p.updated_at > q.created_at

Matches(username, password) ==
    \/ username = "testuser" /\ password = "testpass123"
    \/ username = "admin" /\ password = "admin"

\* C8: a login submission that matches an account binds the session to
\* that account, records one LOGIN event naming it and redirects to the
\* project list; one that does not match leaves the session as it was,
\* records nothing and shows the form again with the one generic error.
C8_Login ==
    [][LET req == last'
       IN  (req.handler = "user_login" /\ req.method = "POST")
             => IF Matches(req.args.username, req.args.password)
                THEN /\ session' = req.args.username
                     /\ Len(Events(req, "LOGIN")) = 1
                     /\ Events(req, "LOGIN")[1].user = req.args.username
                     /\ Len(req.effects) = 1
                     /\ req.status = 302 /\ req.target = "project_list"
                ELSE /\ session' = session
                     /\ req.effects = <<>>
                     /\ req.status = 200 /\ req.target = "login.html"
                     /\ req.message
                          = Msg("error", "Invalid username or password.", None)
                /\ store' = store]_vars

\* a wrong password for an existing account, submitted while the other
\* account's session is active: the session is kept
C8_Witness ==
    /\ last.handler = "user_login"
    /\ last.method = "POST"
    /\ last.args.username = "testuser"
    /\ last.args.password # "testpass123"
    /\ last.user = "admin"
    /\ session = "admin"
    /\ last.message.level = "error"

\* C9: a logout ends with no session and a redirect to login and records
\* one LOGOUT event whose actor is the user of the session the request
\* arrived with, or "Anonymous"; with no session every project request is
\* turned away to login, and only a matching login creates a session.
C9_Logout ==
    [][LET req == last'
       IN  /\ req.handler = "user_logout"
                => /\ session' = None
                   /\ req.status = 302 /\ req.target = "user_login"
                   /\ Len(req.effects) = 1
                   /\ Len(Events(req, "LOGOUT")) = 1
                   /\ Events(req, "LOGOUT")[1].user
                        = (IF session = None THEN "Anonymous" ELSE session)
                   /\ store' = store
           /\ (session = None /\ req.handler \in ProjectViews)
                => req.status = 302 /\ req.target = "login" /\ session' = None
           /\ (session = None /\ session' # None)
                => /\ req.handler = "user_login" /\ req.method = "POST"
                   /\ Matches(req.args.username, req.args.password)
                   /\ session' = req.args.username]_vars

\* a logout that arrived with a session: the event names its user
C9_Witness ==
    /\ last.handler = "user_logout"
    /\ last.user \in Users
    /\ session = None
    /\ last.effects[1].activity_type = "LOGOUT"
    /\ last.effects[1].user = last.user

\* the UPDATE event is recorded after the row is written and carries the
\* given name, budget and status
UpdateRecorded(req, id, form) ==
    \E i, j \in DOMAIN req.effects :
       /\ i < j
       /\ req.effects[i].op = "db_update" /\ req.effects[i].id = id
       /\ req.effects[j].op = "log_project_activity"
       /\ req.effects[j].activity_type = "UPDATE"
       /\ req.effects[j].project_name = form.name
       /\ req.effects[j].details = {<<"budget", form.budget>>, <<"status", form.status>>}

Replaced(old, new, form) ==
    /\ \A f \in FormFields : new[f] = form[f]
    /\ new.manager = old.manager
    /\ new.created_at = old.created_at

\* C10 as stated: every update of an existing project replaces each form
\* column by the submitted value, absent ones included, keeps manager and
\* creation time, and records an UPDATE event after the write.
C10_AsStated ==
    [][LET req == last'
           id == req.args.project_id
       IN  (req.handler = "project_detail" /\ req.args.action = "update"
              /\ session # None /\ id \in Ids(store))
             => /\ id \in Ids(store')
                /\ Replaced(Get(store, id), Get(store', id), req.args.form)
                /\ Len(Events(req, "UPDATE")) = 1
                /\ UpdateRecorded(req, id, req.args.form)]_vars

\* C10 amended: an update whose form carries all eight fields does so; an
\* update whose form lacks a field is answered with a server error, leaves
\* every stored row as it was and records no UPDATE event.
C10_Update ==
    [][LET req == last'
           id == req.args.project_id
       IN  (req.handler = "project_detail" /\ req.args.action = "update"
              /\ session # None /\ id \in Ids(store))
             => IF Complete(req.args.form)
                THEN /\ id \in Ids(store')
                     /\ Replaced(Get(store, id), Get(store', id), req.args.form)
                     /\ {p \in store' : p.id # id} = {p \in store : p.id # id}
                     /\ Len(Events(req, "UPDATE")) = 1
                     /\ UpdateRecorded(req, id, req.args.form)
                ELSE /\ req.status = 500
                     /\ store' = store
                     /\ Len(Events(req, "UPDATE")) = 0]_vars

\* an update by one account of a project the other account manages, with
\* a different complete form: the row has the new values and the old manager
C10_Witness ==
    /\ last.handler = "project_detail"
    /\ last.args.action = "update"
    /\ last.status = 200
    /\ \E p \in store :
          /\ p.id = last.args.project_id
          /\ p.manager # last.user
          /\ p.updated_at > p.created_at
          /\ p.priority = last.args.form.priority
          /\ p.priority = "High"

\* C11: an update of an existing project that supplies a file puts the
\* file once under "project_documents/<id>_<filename>" and, when the put
\* succeeds, the stored document key is that key (when it fails the key is
\* as it was); an update that supplies no file puts nothing and leaves the
\* stored document key as it was.
C11_UpdateDocument ==
    [][LET req == last'
           id == req.args.project_id
           document == req.args.document
           puts == EffectsOf(req, "upload_file")
       IN  (req.handler = "project_detail" /\ req.args.action = "update"
              /\ session # None /\ id \in Ids(store)
              /\ Complete(req.args.form))
             => /\ id \in Ids(store')
                /\ IF document = None
                   THEN /\ puts = <<>>
                        /\ Get(store', id).document = Get(store, id).document
                   ELSE /\ Len(puts) = 1
                        /\ puts[1].document = document
                        /\ puts[1].file_key
                              = "project_documents/" \o ToString(id) \o "_" \o document
                        /\ Get(store', id).document
                              = IF puts[1].ret = "True" THEN puts[1].file_key
                                ELSE Get(store, id).document]_vars

\* an update with permit.pdf of a project whose key named plan.pdf: the
\* stored key now names permit.pdf
C11_Witness ==
    /\ last.handler = "project_detail"
    /\ last.args.action = "update"
    /\ last.args.document = "permit.pdf"
    /\ last.status = 200
    /\ \E i \in DOMAIN last.effects :
          /\ last.effects[i].op = "upload_file"
          /\ last.effects[i].ret = "True"
    /\ \E p \in store :
          /\ p.id = last.args.project_id
          /\ p.id = 1
          /\ p.created_at < p.updated_at
          /\ p.document = "project_documents/1_permit.pdf"
    /\ \E i \in DOMAIN last.effects :
          /\ last.effects[i].op = "get_file_url"
          /\ last.effects[i].file_key = "project_documents/1_permit.pdf"

\* the log group is there after ensure_log_group_exists: found or created
GroupReady(r) == r["describe_log_groups"] = "ok" \/ r["create_log_group"] = "ok"

StreamReady(r) == r["describe_log_streams"] = "ok" \/ r["create_log_stream"] = "ok"

\* C12: under every combination of failing remote calls no helper raises;
\* ensure_log_group_exists, ensure_log_stream_exists, log_project_activity,
\* upload_file, send_email and send_sns_notification return True or False
\* and get_file_url a URL or None; log_project_activity returns True
\* exactly when the group and the stream are found or created and
\* put_log_events succeeds, and each of the others returns True (or the
\* URL) exactly when its last remote call succeeds.
C12_NoFailureEscapes ==
    LET r == call.r
        Bool(b) == IF b THEN "True" ELSE "False"
    IN  /\ call.ret # "Raise"
        /\ call.helper = "ensure_log_group_exists" => call.ret = Bool(GroupReady(r))
        /\ call.helper = "ensure_log_stream_exists" => call.ret = Bool(StreamReady(r))
        /\ call.helper = "log_project_activity"
              => /\ call.ret = Bool(GroupReady(r) /\ StreamReady(r)
                                      /\ r["put_log_events"] = "ok")
                 /\ r["put_log_events"] = "err" => call.ret = "False"
        /\ call.helper = "upload_file"
              => call.ret = Bool(r["upload_fileobj"] = "ok")
        /\ call.helper = "get_file_url"
              => IF r["generate_presigned_url"] = "ok"
                 THEN call.ret \notin {None, "True", "False"}
                 ELSE call.ret = None
        /\ call.helper = "send_email"
              => call.ret = Bool(r["send_email"] = "ok")
        /\ call.helper = "send_sns_notification"
              => call.ret = Bool(r["publish"] = "ok")

\* log_project_activity creates the group and the stream after both
\* lookups failed, put_log_events fails, and the helper returns False
C12_Witness ==
    /\ call.helper = "log_project_activity"
    /\ call.r["describe_log_groups"] = "err"
    /\ call.r["create_log_group"] = "ok"
    /\ call.r["describe_log_streams"] = "err"
    /\ call.r["create_log_stream"] = "ok"
    /\ call.r["put_log_events"] = "err"
    /\ call.ret = "False"

\* C13 as stated: every audit event is in the stream stamped with the
\* calendar day on which it was written.
C13_AsStated ==
    \A e \in cloudwatch.events :
       e.stream = "construction-app-" \o ToString(e.day)

\* C14 as stated: in every delete request, and every create or update
\* request with a complete form, that reaches a collaborator, a write of the table comes before the first call of
\* the Audit Sink, Document Store or Notification Dispatcher; a file is
\* put and its FILE_UPLOAD event recorded only after the write; the DELETE
\* event comes after the removal and carries the name the row had.
C14_AsStated ==
    [][LET req == last'
           id == req.args.project_id
           writes == {i \in DOMAIN req.effects :
                        req.effects[i].op \in {"db_insert", "db_update", "db_delete"}}
       IN  (req.handler \in {"project_create", "project_detail"}
              /\ req.method = "POST" /\ session # None
              /\ (req.args.action = "delete" \/ Complete(req.args.form)))
             => /\ \A i \in DOMAIN req.effects \ writes : \E j \in writes : j < i
                /\ \A i \in DOMAIN req.effects :
                      (req.effects[i].op = "log_project_activity"
                         /\ req.effects[i].activity_type = "DELETE")
                        => /\ \E j \in writes :
                                 j < i /\ req.effects[j].op = "db_delete"
                           /\ id \in Ids(store)
                           /\ req.effects[i].project_name = Get(store, id).name]_vars

\* C15 as stated: a project removed by a completed delete request is
\* never again in the table, whatever the other workers do.
C15_AsStated ==
    \A id \in deleted : id \notin Ids(store)

\* C16: when two workers have each completed an update of the same
\* project with a complete form, both are answered 200 and the stored row
\* is the instance the later save wrote: its eight form columns are that
\* request's form, its document key and manager are the ones that
\* request held in memory at its save, its update time is that save's.
C16_LastWriteWins ==
    \A w1, w2 \in Workers :
       LET a == inflight[w1]
           b == inflight[w2]
           id == b.project_id
       IN  (/\ w1 # w2
            /\ a.view = "update" /\ a.pc = "done" /\ a.status # 404
            /\ b.view = "update" /\ b.pc = "done" /\ b.status # 404
            /\ a.project_id = id
            /\ Complete(a.form) /\ Complete(b.form)
            /\ a.saved_at <= b.saved_at)
             => /\ a.status = 200 /\ b.status = 200
                /\ a.saved_at < b.saved_at
                /\ id \in Ids(store)
                /\ \A f \in FormFields : Get(store, id)[f] = b.form[f]
                /\ Get(store, id).document = b.project.document
                /\ Get(store, id).manager = b.project.manager
                /\ Get(store, id).updated_at = b.saved_at

\* both updates read the project before either saved: the first to save
\* stored the key of its file, the second, without a file, saved last and
\* the row has its form and no document key
C16_Witness ==
    \E w1, w2 \in Workers :
       LET a == inflight[w1]
           b == inflight[w2]
       IN  /\ a.view = "update" /\ a.pc = "done" /\ a.status = 200
           /\ b.view = "update" /\ b.pc = "done" /\ b.status = 200
           /\ a.project_id = 1 /\ b.project_id = 1
           /\ a.saved_at < b.saved_at
           /\ a.document = "plan.pdf"
           /\ a.project.document = "project_documents/1_plan.pdf"
           /\ b.document = None
           /\ a.form # b.form
           /\ \E p \in store :
                 /\ p.id = 1
                 /\ p.document = None
                 /\ p.name = b.form.name
                 /\ p.updated_at = b.saved_at

====
